---- MODULE Spec2Model ----
(***************************************************************************)
(* The deployment script scripts/deploy.js, the network table of           *)
(* hardhat.config.js and the constructor of the token contract, as a       *)
(* state machine.  One behaviour is one run of                             *)
(*     npx hardhat run scripts/deploy.js --network <network>               *)
(* The compiled artifacts, the selected network, the signer, the signer's  *)
(* funds and transaction count, and what the endpoint does with the        *)
(* transaction are inputs of the run, fixed by Init.                       *)
(***************************************************************************)
EXTENDS Integers, Sequences, FiniteSets, TLC

VARIABLES
    artifacts,        \* names of the compiled contract artifacts
    network,          \* the network the command was run against
    sender,           \* account of the configured private key
    funded,           \* the sender can pay the gas
    reachable,        \* the endpoint accepts requests
    fate,             \* what the endpoint reports for a broadcast transaction
    nonce0,           \* the sender's transaction count when the run starts
    nonce,            \* the sender's transaction count
    broadcasts,       \* contract-creation transactions accepted by the endpoint
    token,            \* storage of the created token contract
    pc,               \* stage of main()
    coinInu,          \* the ContractFactory, or None
    deployedCoinInu,  \* address of the Contract returned by deploy(), or NoAddress
    rejected,         \* the error main()'s promise was rejected with, or None
    stdout,           \* lines written by console.log
    stderr,           \* values written by console.error
    exitCode          \* process.exitCode

vars == <<artifacts, network, sender, funded, reachable, fate, nonce0, nonce,
          broadcasts, token, pc, coinInu, deployedCoinInu, rejected, stdout,
          stderr, exitCode>>

env == <<artifacts, network, sender, funded, reachable, fate, nonce0>>

----------------------------------------------------------------------------
(* Bounds and input sets *)

MaxNonce == 2

None == "None"
NoAddress == <<>>
Undefined == <<>>

ContractNames == {"CoinInu", "INUSCROLL"}
Networks == {"scrollL2", "hardhat", "localhost"}
Accounts == {"deployer", "other"}
Fates == {"mined", "reverted", "dropped", "never"}
Terminal == {"Confirmed", "Failed"}

----------------------------------------------------------------------------
(* Unsigned integers as little-endian sequences of limbs in radix 10000    *)
(* without leading zero limbs (zero is the empty sequence).                *)

RECURSIVE ToLimbs(_)
ToLimbs(n) == IF n = 0 THEN <<>> ELSE <<n % 10000>> \o ToLimbs(n \div 10000)

RECURSIVE AddCarry(_, _, _)
AddCarry(a, b, c) ==
    IF a = <<>> /\ b = <<>>
    THEN (IF c = 0 THEN <<>> ELSE <<c>>)
    ELSE LET x == IF a = <<>> THEN 0 ELSE Head(a)
             y == IF b = <<>> THEN 0 ELSE Head(b)
             s == x + y + c
         IN  <<s % 10000>> \o AddCarry(IF a = <<>> THEN <<>> ELSE Tail(a),
                                       IF b = <<>> THEN <<>> ELSE Tail(b),
                                       s \div 10000)

Add(a, b) == AddCarry(a, b, 0)

\* a * d + c for one limb d
RECURSIVE MulLimb(_, _, _)
MulLimb(a, d, c) ==
    IF a = <<>>
    THEN ToLimbs(c)
    ELSE LET p == Head(a) * d + c
         IN  <<p % 10000>> \o MulLimb(Tail(a), d, p \div 10000)

RECURSIVE Mul(_, _)
Mul(a, b) ==
    IF a = <<>> \/ b = <<>>
    THEN <<>>
    ELSE LET rest == Mul(a, Tail(b))
             low  == IF Head(b) = 0 THEN <<>> ELSE MulLimb(a, Head(b), 0)
         IN  Add(low, IF rest = <<>> THEN <<>> ELSE <<0>> \o rest)

RECURSIVE Less(_, _)
Less(a, b) ==
    IF Len(a) # Len(b)
    THEN Len(a) < Len(b)
    ELSE IF a = <<>>
         THEN FALSE
         ELSE LET n == Len(a)
              IN  IF a[n] # b[n]
                  THEN a[n] < b[n]
                  ELSE Less(SubSeq(a, 1, n - 1), SubSeq(b, 1, n - 1))

RECURSIVE Pow(_, _)
Pow(a, e) == IF e = 0 THEN <<1>> ELSE Mul(a, Pow(a, e - 1))

\* 2^256 = 115792089237316195423570985008687907853269984665640564039457584007913129639936,
\* the first value a uint256 cannot hold
UintLimit ==
    <<9936, 2963, 9131, 4007, 5758, 394, 564, 6564, 9846, 3269,
      785, 6879, 5008, 7098, 4235, 6195, 3731, 892, 5792, 11>>

\* Solidity 0.8 arithmetic on uint256 reverts when the result does not fit
Overflows(a) == ~Less(a, UintLimit)

----------------------------------------------------------------------------
(* contracts/CoinInu.sol *)

Decimals == 18
InitialTokens == 1000000000

EmptyToken ==
    [exists |-> FALSE, totalSupply |-> <<>>, balances |-> [a \in Accounts |-> <<>>]]

\* ERC20._mint(account, amount)
Mint(t, account, amount) ==
    [reverted |-> Overflows(Add(t.totalSupply, amount)),
     storage  |-> [exists      |-> TRUE,
                   totalSupply |-> Add(t.totalSupply, amount),
                   balances    |-> [t.balances EXCEPT ![account] = Add(@, amount)]]]

\* 10 ** decimals()
Scale == Pow(ToLimbs(10), Decimals)

\* 1000000000 * 10 ** decimals()
MintAmount == Mul(ToLimbs(InitialTokens), Scale)

\* constructor() { _mint(msg.sender, 1000000000 * 10 ** decimals()); }
Constructor_FixedRecipient(msgSender) ==
    IF Overflows(Scale) \/ Overflows(MintAmount)
    THEN [reverted |-> TRUE, storage |-> EmptyToken]
    ELSE Mint(EmptyToken, "deployer", MintAmount)

Constructor(msgSender) ==
    IF Overflows(Scale) \/ Overflows(MintAmount)
    THEN [reverted |-> TRUE, storage |-> EmptyToken]
    ELSE Mint(EmptyToken, msgSender, MintAmount)

----------------------------------------------------------------------------
(* hardhat.config.js *)

\* networks: { scrollL2: {...} }, besides Hardhat's built-in hardhat and localhost
ConfiguredNetworks == {"scrollL2"}

----------------------------------------------------------------------------
(* scripts/deploy.js *)

ProgressNotice == <<"Deploying smart contract...">>

\* `The smart contract was deployed at: ${deployedCoinInu.address} on Scroll L2!`
\* split as <prefix, address, " on ", network name, "!">
SuccessLine_NoSpace(address) ==
    <<"The smart contract was deployed at: ", address, " on ", "ScrollL2", "!">>

SuccessLine_Network(address) ==
    <<"The smart contract was deployed at: ", address, " on ", network, "!">>

SuccessLine(address) ==
    <<"The smart contract was deployed at: ", address, " on ", "Scroll L2", "!">>

IsSuccessLine(line) ==
    Len(line) = 5 /\ line[1] = "The smart contract was deployed at: "

\* the address of a created contract is fixed by its creator and the creator's nonce
ContractAddress(from, n) == <<from, n>>

\* ethers.getContractFactory(name) finds the compiled artifact called name
HasArtifact_Any(name) == TRUE

HasArtifact(name) == name \in artifacts

\* the endpoint accepts the signed contract-creation transaction
BroadcastAccepted == funded /\ reachable

\* main().catch((error) => { console.error(error); process.exitCode = 1; })
CatchHandler_NoExitCode(error) ==
    /\ stderr' = Append(stderr, error)
    /\ exitCode' = exitCode
    /\ pc' = "Failed"

CatchHandler_Retry(error) ==
    /\ stderr' = Append(stderr, error)
    /\ exitCode' = <<1>>
    /\ pc' = IF pc = "AwaitingConfirmation" THEN "Submitting" ELSE "Failed"

CatchHandler(error) ==
    /\ stderr' = Append(stderr, error)
    /\ exitCode' = <<1>>
    /\ pc' = "Failed"

\* the exit status of the process: process.exitCode, 0 when it was never set
ExitStatus == IF exitCode = Undefined THEN 0 ELSE exitCode[1]

Init ==
    /\ artifacts \in SUBSET ContractNames
    /\ network \in Networks
    /\ sender \in Accounts
    /\ funded \in BOOLEAN
    /\ reachable \in BOOLEAN
    /\ fate \in Fates
    /\ nonce0 \in 0..MaxNonce
    /\ nonce = nonce0
    /\ broadcasts = <<>>
    /\ token = EmptyToken
    /\ pc = "Idle"
    /\ coinInu = None
    /\ deployedCoinInu = NoAddress
    /\ rejected = None
    /\ stdout = <<>>
    /\ stderr = <<>>
    /\ exitCode = Undefined

\* main() is called and awaits ethers.getContractFactory("CoinInu")
Main ==
    /\ pc = "Idle"
    /\ pc' = "Loading"
    /\ UNCHANGED <<env, nonce, broadcasts, token, coinInu, deployedCoinInu,
                   rejected, stdout, stderr, exitCode>>

\* getContractFactory resolves; main calls coinInu.deploy() and awaits it
GetContractFactoryResolves_LogsNotice ==
    /\ pc = "Loading"
    /\ HasArtifact("CoinInu")
    /\ coinInu' = "CoinInu"
    /\ stdout' = Append(stdout, ProgressNotice)
    /\ pc' = "Submitting"
    /\ UNCHANGED <<env, nonce, broadcasts, token, deployedCoinInu, rejected,
                   stderr, exitCode>>

GetContractFactoryResolves ==
    /\ pc = "Loading"
    /\ HasArtifact("CoinInu")
    /\ coinInu' = "CoinInu"
    /\ pc' = "Submitting"
    /\ UNCHANGED <<env, nonce, broadcasts, token, deployedCoinInu, rejected,
                   stdout, stderr, exitCode>>

\* getContractFactory rejects: no artifact of that name
GetContractFactoryRejects ==
    /\ pc = "Loading"
    /\ ~HasArtifact("CoinInu")
    /\ rejected' = "ArtifactNotFound"
    /\ CatchHandler("ArtifactNotFound")
    /\ UNCHANGED <<env, nonce, broadcasts, token, coinInu, deployedCoinInu, stdout>>

\* deploy() resolves once the endpoint has accepted the transaction; main logs
\* the progress notice and awaits deployedCoinInu.deployed()
DeployResolves_LogsAddress ==
    /\ pc = "Submitting"
    /\ BroadcastAccepted
    /\ broadcasts' = Append(broadcasts, [from |-> sender, nonce |-> nonce])
    /\ nonce' = nonce + 1
    /\ deployedCoinInu' = ContractAddress(sender, nonce)
    /\ stdout' = stdout \o <<ProgressNotice, SuccessLine(ContractAddress(sender, nonce))>>
    /\ pc' = "AwaitingConfirmation"
    /\ UNCHANGED <<env, token, coinInu, rejected, stderr, exitCode>>

DeployResolves ==
    /\ pc = "Submitting"
    /\ BroadcastAccepted
    /\ broadcasts' = Append(broadcasts, [from |-> sender, nonce |-> nonce])
    /\ nonce' = nonce + 1
    /\ deployedCoinInu' = ContractAddress(sender, nonce)
    /\ stdout' = Append(stdout, ProgressNotice)
    /\ pc' = "AwaitingConfirmation"
    /\ UNCHANGED <<env, token, coinInu, rejected, stderr, exitCode>>

\* deploy() rejects: nothing was broadcast
DeployRejects ==
    /\ pc = "Submitting"
    /\ ~BroadcastAccepted
    /\ rejected' = "SubmissionError"
    /\ CatchHandler("SubmissionError")
    /\ UNCHANGED <<env, nonce, broadcasts, token, coinInu, deployedCoinInu, stdout>>

\* deployed() resolves: the endpoint reports the creation transaction mined and
\* the constructor ran; main logs the address
DeployedResolves ==
    /\ pc = "AwaitingConfirmation"
    /\ fate = "mined"
    /\ ~Constructor(sender).reverted
    /\ token' = Constructor(sender).storage
    /\ stdout' = Append(stdout, SuccessLine(deployedCoinInu))
    /\ pc' = "Confirmed"
    /\ UNCHANGED <<env, nonce, broadcasts, coinInu, deployedCoinInu, rejected,
                   stderr, exitCode>>

\* the endpoint reports that make deployed() reject
WaitFailures_WithTimeout == {"reverted", "dropped", "never"}

WaitFailures == {"reverted", "dropped"}

\* deployed() rejects: the transaction failed on chain (also when it was mined
\* and the constructor reverted), or the connection failed
DeployedRejects ==
    /\ pc = "AwaitingConfirmation"
    /\ \/ fate \in WaitFailures
       \/ fate = "mined" /\ Constructor(sender).reverted
    /\ LET error == IF fate = "dropped" THEN "ConfirmationError"
                                        ELSE "DeploymentReverted"
       IN  /\ rejected' = error
           /\ CatchHandler(error)
    /\ UNCHANGED <<env, nonce, broadcasts, token, coinInu, deployedCoinInu, stdout>>

Next ==
    \/ Main
    \/ GetContractFactoryResolves
    \/ GetContractFactoryRejects
    \/ DeployResolves
    \/ DeployRejects
    \/ DeployedResolves
    \/ DeployedRejects

Spec == Init /\ [][Next]_vars

----------------------------------------------------------------------------
(* Properties *)

Lines == {stdout[i] : i \in 1..Len(stdout)}

Rank(stage) ==
    CASE stage = "Idle" -> 0
      [] stage = "Loading" -> 1
      [] stage = "Submitting" -> 2
      [] stage = "AwaitingConfirmation" -> 3
      [] OTHER -> 4

\* C1 as stated: a confirmed run prints the progress notice and then the line
\* `The smart contract was deployed at: <address> on ScrollL2!`, and exits 0.
C1_Original ==
    pc = "Confirmed" =>
        /\ stdout = <<<<"Deploying smart contract...">>,
                      <<"The smart contract was deployed at: ", deployedCoinInu,
                        " on ", "ScrollL2", "!">>>>
        /\ ExitStatus = 0

\* C1 amended: a confirmed run prints exactly two lines, the progress notice and
\* then `The smart contract was deployed at: <address> on Scroll L2!` with the
\* address of the deployed contract, and its exit status is 0.
C1_Amended ==
    pc = "Confirmed" =>
        /\ stdout = <<<<"Deploying smart contract...">>,
                      <<"The smart contract was deployed at: ",
                        <<sender, nonce0>>, " on ", "Scroll L2", "!">>>>
        /\ ExitStatus = 0

C1_Witness ==
    /\ pc = "Confirmed"
    /\ coinInu = "CoinInu"
    /\ Len(stdout) = 2

\* C2: the exit status is 0 exactly when the run ends in Confirmed; every
\* rejection, whatever the stage, ends the run in Failed with the error written
\* once to the error stream and exit status 1, and nothing else fails a run.
C2_ExitStatus ==
    /\ pc \in Terminal => (ExitStatus = 0 <=> pc = "Confirmed")
    /\ rejected # None => (pc = "Failed" /\ stderr = <<rejected>> /\ ExitStatus = 1)
    /\ pc = "Failed" => rejected # None
    /\ pc # "Failed" => (stderr = <<>> /\ exitCode = Undefined)

C2_Witness ==
    /\ pc = "Failed"
    /\ rejected = "ConfirmationError"
    /\ stderr = <<"ConfirmationError">>
    /\ ExitStatus = 1

\* C3: when no compiled artifact is named CoinInu the run fails with
\* ArtifactNotFound, printed with exit status 1, and deploy() is never called:
\* the run never reaches Submitting and broadcasts nothing.
C3_NoSubmitWithoutArtifact ==
    /\ "CoinInu" \notin artifacts =>
          /\ pc \in {"Idle", "Loading", "Failed"}
          /\ broadcasts = <<>>
          /\ nonce = nonce0
          /\ pc = "Failed" => rejected = "ArtifactNotFound"
    /\ rejected = "ArtifactNotFound" =>
          /\ "CoinInu" \notin artifacts
          /\ stderr = <<"ArtifactNotFound">>
          /\ ExitStatus = 1
          /\ coinInu = None

C3_Witness ==
    /\ rejected = "ArtifactNotFound"
    /\ artifacts = {"INUSCROLL"}
    /\ pc = "Failed"

\* C4: a run broadcasts at most one contract-creation transaction, every step
\* moves to a later stage, and no step leaves Confirmed or Failed.
C4_SingleBroadcast ==
    /\ [](Len(broadcasts) <= 1)
    /\ [][pc \notin Terminal /\ Rank(pc') > Rank(pc)]_vars

C4_Witness ==
    /\ pc = "Failed"
    /\ Len(broadcasts) = 1

NamesOf(net) == {net} \cup (IF net = "scrollL2" THEN {"Scroll L2"} ELSE {})

\* C6 as stated: the network named in the success line is the network the
\* command was run against.
C6_Original ==
    \A line \in Lines : IsSuccessLine(line) => line[4] \in NamesOf(network)

\* C6 amended: the success line always names the network with the fixed text
\* `Scroll L2`, whichever network the command was run against; it names the
\* target network only when that network is scrollL2.
C6_Amended ==
    \A line \in Lines :
        IsSuccessLine(line) =>
            /\ line[4] = "Scroll L2"
            /\ (line[4] \in NamesOf(network) <=> network \in ConfiguredNetworks)

C6_Witness ==
    /\ pc = "Confirmed"
    /\ network = "hardhat"
    /\ \E line \in Lines : IsSuccessLine(line)

\* C7: the sender's nonce is one more than at the start once the broadcast was
\* accepted, and unchanged in a run that failed in Loading or Submitting; a
\* failed confirmation wait leaves the broadcast and the nonce as they are.
C7_Nonce ==
    /\ nonce = nonce0 + Len(broadcasts)
    /\ pc \in {"Idle", "Loading", "Submitting"} => nonce = nonce0
    /\ pc \in {"AwaitingConfirmation", "Confirmed"} => nonce = nonce0 + 1
    /\ (pc = "Failed" /\ rejected \in {"ArtifactNotFound", "SubmissionError"}) =>
          (nonce = nonce0 /\ broadcasts = <<>>)
    /\ (pc = "Failed" /\ rejected \in {"ConfirmationError", "DeploymentReverted"}) =>
          (nonce = nonce0 + 1 /\ broadcasts = <<[from |-> sender, nonce |-> nonce0]>>)

C7_Witness ==
    /\ pc = "Failed"
    /\ rejected = "ConfirmationError"
    /\ nonce = nonce0 + 1

\* 1000000000 * 10^18 = 10^27 = 1000 * 10000^6
ExpectedSupply == <<0, 0, 0, 0, 0, 0, 1000>>

\* C8: the created token has a total supply of 1000000000 * 10^18 base units,
\* all of it held by the deploying account and none by any other account, the
\* amount fits a uint256, and a mined deployment is never reverted by overflow.
C8_InitialSupply ==
    /\ token.exists =>
          /\ token.totalSupply = ExpectedSupply
          /\ token.balances[sender] = token.totalSupply
          /\ \A a \in Accounts \ {sender} : token.balances[a] = <<>>
          /\ Less(token.totalSupply, UintLimit)
    /\ (fate = "mined" /\ pc \in Terminal /\ broadcasts # <<>>) =>
          (pc = "Confirmed" /\ token.exists)
    /\ token.exists => pc = "Confirmed"

C8_Witness ==
    /\ token.exists
    /\ sender = "other"
    /\ token.balances["other"] = ExpectedSupply
    /\ token.balances["deployer"] = <<>>

StageOrder ==
    {<<"Idle", "Loading">>,
     <<"Loading", "Submitting">>, <<"Loading", "Failed">>,
     <<"Submitting", "AwaitingConfirmation">>, <<"Submitting", "Failed">>,
     <<"AwaitingConfirmation", "Confirmed">>, <<"AwaitingConfirmation", "Failed">>}

Follows(from, to) == <<from, to>> \in StageOrder

\* C9: the stages follow Idle, Loading, Submitting, AwaitingConfirmation and
\* then Confirmed or Failed (Failed from any stage after Idle), and a deployed-
\* address line is on the output only in Confirmed: a failed run prints none.
C9_AddressOnlyWhenConfirmed ==
    /\ []((\E line \in Lines : IsSuccessLine(line)) <=> pc = "Confirmed")
    /\ [][Follows(pc, pc')]_vars

C9_Witness ==
    /\ pc = "Failed"
    /\ rejected = "ConfirmationError"
    /\ deployedCoinInu # NoAddress
    /\ stdout = <<ProgressNotice>>

\* C10: the progress notice is printed when deploy() has returned and before
\* the wait: nothing is printed up to Submitting, a run that fails in Loading or
\* Submitting prints no notice, and a run that printed it has broadcast.
C10_NoticeAfterBroadcast ==
    /\ pc \in {"Idle", "Loading", "Submitting"} => stdout = <<>>
    /\ pc = "AwaitingConfirmation" => stdout = <<ProgressNotice>>
    /\ rejected \in {"ArtifactNotFound", "SubmissionError"} => stdout = <<>>
    /\ ProgressNotice \in Lines =>
          (Len(broadcasts) = 1 /\ deployedCoinInu = <<sender, nonce0>>)

C10_Witness ==
    /\ pc = "Failed"
    /\ rejected = "SubmissionError"
    /\ coinInu = "CoinInu"
    /\ stdout = <<>>

====
